---- MODULE Spec2Model ----
(***************************************************************************)
(* Model of frontend/src/lib/api.ts: the axios client with its request     *)
(* interceptor (credential attachment) and its response interceptor (401   *)
(* handling, deduplicated by the module-level flag isHandlingUnauthorized).*)
(*                                                                         *)
(* Execution is single-threaded and cooperative: one action is one run of  *)
(* a callback from a suspension point to the next one.  The suspension     *)
(* points are the await of supabase.auth.getSession(), the transport, the  *)
(* await of supabase.auth.signOut() and the setTimeout callback.           *)
(***************************************************************************)
EXTENDS Integers, Sequences, FiniteSets, TLC

\* ------------------------------------------------------------------ bounds
NumReqs == 2        \* requests issued through the client
TickMs == 500       \* milliseconds that pass in one step of the clock

\* ------------------------------------------------------- program constants
UNAUTHORIZED == 401       \* error.response?.status === 401
RESET_DELAY == 1000       \* setTimeout(..., 1000)

PUBLIC_PATHS == <<"/login", "/signup", "/forgot-password", "/reset-password">>

Reqs == 1..NumReqs
NoTimer == -1
NoTime == -1
\* Elapsed times are counted up to the first value beyond the reset delay.
ElapsedCap == RESET_DELAY + TickMs
Min(a, b) == IF a <= b THEN a ELSE b
Max(a, b) == IF a >= b THEN a ELSE b

\* ---------------------------------------------------------- environment
\* What supabase.auth.getSession() can resolve with: no session, a session
\* with an empty access token, a session with a token.
NoSession == [present |-> FALSE, access_token |-> ""]
Session(tok) == [present |-> TRUE, access_token |-> tok]
Sessions == {NoSession, Session(""), Session("tokA"), Session("tokB")}

\* window.location: the places the user can be at.
Locations ==
    { [pathname |-> "/dashboard", search |-> ""],
      [pathname |-> "/settings", search |-> "?tab=2"],
      [pathname |-> "/reset-password/abc", search |-> ""] }

\* Statuses the backend answers with: two successes, the unauthorized status
\* and another failure.
Statuses == {200, 204, UNAUTHORIZED, 500}

\* --------------------------------------------------------------- values
NoResponse == [present |-> FALSE, status |-> 0]
Response(st) == [present |-> TRUE, status |-> st]

\* The error object of a failed request: axios' error for a response with a
\* rejected status, its error for a transport failure (no response), or
\* whatever getSession() threw.
HttpError(r, st) == [req |-> r, cause |-> "http", response |-> Response(st)]
NetworkError(r) == [req |-> r, cause |-> "network", response |-> NoResponse]
LookupError(r) == [req |-> r, cause |-> "getSession", response |-> NoResponse]
\* What supabase.auth.signOut() throws when it fails.
SignOutError(r) == [req |-> r, cause |-> "signOut", response |-> NoResponse]
NoError == [req |-> 0, cause |-> "none", response |-> NoResponse]

NoHeaders == [hasAuthorization |-> FALSE, Authorization |-> ""]
NotLooked == [present |-> FALSE, access_token |-> "<not looked up>"]

Pending == [state |-> "pending", value |-> NoError]
Fulfilled(r, st) ==
    [state |-> "fulfilled",
     value |-> [req |-> r, cause |-> "ok", response |-> Response(st)]]
Rejected(e) == [state |-> "rejected", value |-> e]

VARIABLES
    isHandlingUnauthorized, \* the module-level flag
    location,               \* window.location (pathname, search)
    pc,                     \* where each request is in the pipeline
    session,                \* what getSession() resolved with, for a request
                            \* that is at the transport
    headers,                \* the headers of a request that is at the transport
    error,                  \* the error the response interceptor was called with
    pathname,               \* the handler's local const pathname
    elapsed,                \* milliseconds since the handler set the flag
    timers,                 \* milliseconds until the handler's setTimeout is due
    outcome,                \* how the caller's promise settled
    signOutLog,             \* calls of supabase.auth.signOut(), in order
    hrefLog                 \* assignments to window.location.href, in order

vars == <<isHandlingUnauthorized, location, pc, session, headers, error,
          pathname, elapsed, timers, outcome, signOutLog, hrefLog>>

\* ------------------------------------------------------ pure functions
\* (variant: the path is compared for equality, not as a prefix)
IsPublicPath_Exact(p) == \E i \in 1..Len(PUBLIC_PATHS) : p = PUBLIC_PATHS[i]

\* String.prototype.startsWith
startsWith(s, p) == Len(p) <= Len(s) /\ SubSeq(s, 1, Len(p)) = p

\* PUBLIC_PATHS.some((p) => pathname.startsWith(p))
IsPublicPath(p) ==
    \E i \in 1..Len(PUBLIC_PATHS) : startsWith(p, PUBLIC_PATHS[i])

\* window.location.pathname || '/'
CurrentPathname(loc) == IF loc.pathname = "" THEN "/" ELSE loc.pathname

\* encodeURIComponent on one character: the reserved characters that occur
\* in a path or a query string are percent-encoded, the rest are kept.
encodeChar(c) ==
    CASE c = "/" -> "%2F"
      [] c = "?" -> "%3F"
      [] c = "=" -> "%3D"
      [] c = "&" -> "%26"
      [] c = "%" -> "%25"
      [] c = "#" -> "%23"
      [] c = " " -> "%20"
      [] OTHER -> c

RECURSIVE encodeURIComponent(_)
encodeURIComponent(s) ==
    IF Len(s) = 0 THEN ""
    ELSE encodeChar(SubSeq(s, 1, 1)) \o encodeURIComponent(SubSeq(s, 2, Len(s)))

\* `/login?returnUrl=${encodeURIComponent(pathname + window.location.search)}`
LoginHref(path, search) ==
    "/login?returnUrl=" \o encodeURIComponent(path \o search)

\* (variant: the header of a request already at the transport is reused)
RequestInterceptor_Cached(s) ==
    IF \E q \in Reqs : headers[q].hasAuthorization
    THEN headers[CHOOSE q \in Reqs : headers[q].hasAuthorization]
    ELSE IF s.present /\ s.access_token # ""
    THEN [hasAuthorization |-> TRUE,
          Authorization |-> "Bearer " \o s.access_token]
    ELSE NoHeaders

\* The request interceptor's fulfilled handler, applied to the session that
\* getSession() resolved with: the headers of the returned config.
RequestInterceptor(s) ==
    IF s.present /\ s.access_token # ""
    THEN [hasAuthorization |-> TRUE,
          Authorization |-> "Bearer " \o s.access_token]
    ELSE NoHeaders

\* (variant: a failed credential lookup counts as unauthorized too)
IsUnauthorized_AnyAuthFailure(e) ==
    \/ e.cause = "getSession"
    \/ e.response.present /\ e.response.status = UNAUTHORIZED

\* (variant: every failure with an error status counts as unauthorized)
IsUnauthorized_AnyErrorStatus(e) ==
    e.response.present /\ e.response.status >= 400

\* error.response?.status === 401
IsUnauthorized(e) == e.response.present /\ e.response.status = UNAUTHORIZED

\* axios' default validateStatus: 2xx resolves, everything else rejects.
validateStatus(st) == st >= 200 /\ st < 300

\* (variant: no try/catch around signOut, its failure is what is thrown)
RejectionOf_SurfaceSignOut(e, signOutFailed, signOutErr) ==
    IF signOutFailed THEN signOutErr ELSE e

\* The value the response interceptor's error handler returns rejected:
\* return Promise.reject(error), also after the try/catch around signOut.
RejectionOf(e, signOutFailed, signOutErr) == e

\* The request that healthCheck() issues: this.client.get('/v1/health').  The
\* other requests come from the other resource operations.
HealthProbe == 1

\* What a resource operation gives its caller.
NotReturned == [kind |-> "pending", value |-> FALSE, error |-> NoError]
Returns(b) == [kind |-> "return", value |-> b, error |-> NoError]
Throws(e) == [kind |-> "throw", value |-> FALSE, error |-> e]

\* (variant: no try/catch, the failure of the request is thrown)
healthCheck_NoCatch(o) ==
    IF o.state = "pending" THEN NotReturned
    ELSE IF o.state = "fulfilled"
    THEN Returns(o.value.response.status = 200)
    ELSE Throws(o.value)

\* healthCheck(), applied to the way its request settled: response.status
\* === 200 for a response, false from the catch.
healthCheck(o) ==
    IF o.state = "pending" THEN NotReturned
    ELSE IF o.state = "fulfilled"
    THEN Returns(o.value.response.status = 200)
    ELSE Returns(FALSE)

\* ------------------------------------------------------------------ Init
Init ==
    /\ isHandlingUnauthorized = FALSE
    /\ location \in Locations
    /\ pc = [r \in Reqs |-> "idle"]
    /\ session = [r \in Reqs |-> NotLooked]
    /\ headers = [r \in Reqs |-> NoHeaders]
    /\ error = [r \in Reqs |-> NoError]
    /\ pathname = [r \in Reqs |-> ""]
    /\ elapsed = [r \in Reqs |-> NoTime]
    /\ timers = [r \in Reqs |-> NoTimer]
    /\ outcome = [r \in Reqs |-> Pending]
    /\ signOutLog = <<>>
    /\ hrefLog = <<>>

\* --------------------------------------------------------------- actions
\* A resource operation calls this.client.<method>(...): the request
\* interceptor starts and suspends at await supabase.auth.getSession().
\* Requests are numbered in the order they are issued.
Issue(r) ==
    /\ pc[r] = "idle"
    /\ IF r = 1 THEN TRUE ELSE pc[r - 1] # "idle"
    /\ pc' = [pc EXCEPT ![r] = "getSession"]
    /\ UNCHANGED <<isHandlingUnauthorized, location, session, headers,
                   error, pathname, elapsed, timers, outcome, signOutLog,
                   hrefLog>>

\* getSession() resolves with s: the interceptor sets the header and returns
\* the config, which axios hands to the transport.
GetSessionResolve(r, s) ==
    /\ pc[r] = "getSession"
    /\ session' = [session EXCEPT ![r] = s]
    /\ headers' = [headers EXCEPT ![r] = RequestInterceptor(s)]
    /\ pc' = [pc EXCEPT ![r] = "sent"]
    /\ UNCHANGED <<isHandlingUnauthorized, location, error, pathname,
                   elapsed, timers, outcome, signOutLog, hrefLog>>

\* (variant: the flag is not consulted)
Branch_NoDedup(e, loc, flag) ==
    IF ~IsUnauthorized(e) THEN "reject"
    ELSE IF IsPublicPath(CurrentPathname(loc)) THEN "reject"
    ELSE "recover"

\* The branch the response interceptor's error handler takes for error e
\* at location loc with the flag at flag: "recover" (sign out, redirect,
\* then reject) or "reject" (return Promise.reject(error) at once).
Branch(e, loc, flag) ==
    IF ~IsUnauthorized(e) THEN "reject"
    ELSE IF IsPublicPath(CurrentPathname(loc)) THEN "reject"
    ELSE IF ~flag THEN "recover"
    ELSE "reject"

\* (variant: the flag is not set before the handler suspends)
BeginRecovery_FlagNotSet(r) ==
    /\ elapsed' = [elapsed EXCEPT ![r] = 0]
    /\ signOutLog' = Append(signOutLog, r)
    /\ pc' = [pc EXCEPT ![r] = "signOut"]
    /\ UNCHANGED <<isHandlingUnauthorized, timers, hrefLog, outcome>>

\* (variant: the reset is scheduled when the flag is set, before signOut)
BeginRecovery_TimerFirst(r) ==
    /\ isHandlingUnauthorized' = TRUE
    /\ elapsed' = [elapsed EXCEPT ![r] = 0]
    /\ timers' = [timers EXCEPT ![r] = RESET_DELAY]
    /\ signOutLog' = Append(signOutLog, r)
    /\ pc' = [pc EXCEPT ![r] = "signOut"]
    /\ UNCHANGED <<hrefLog, outcome>>

\* (variant: signOut is not awaited before the caller is rejected)
BeginRecovery_RejectFirst(r) ==
    /\ isHandlingUnauthorized' = TRUE
    /\ elapsed' = [elapsed EXCEPT ![r] = 0]
    /\ signOutLog' = Append(signOutLog, r)
    /\ pc' = [pc EXCEPT ![r] = "signOut"]
    /\ outcome' = [outcome EXCEPT ![r] = Rejected(error'[r])]
    /\ UNCHANGED <<timers, hrefLog>>

\* (variant: the redirect is made before signOut is awaited)
BeginRecovery_RedirectFirst(r) ==
    /\ isHandlingUnauthorized' = TRUE
    /\ elapsed' = [elapsed EXCEPT ![r] = 0]
    /\ signOutLog' = Append(signOutLog, r)
    /\ hrefLog' = Append(hrefLog,
                         [req |-> r,
                          href |-> LoginHref(CurrentPathname(location),
                                             location.search),
                          signOutFailed |-> FALSE])
    /\ pc' = [pc EXCEPT ![r] = "signOut"]
    /\ UNCHANGED <<timers, outcome>>

\* The handler of request r starts a recovery: it sets the flag, calls
\* supabase.auth.signOut() and suspends at the await.
BeginRecovery(r) ==
    /\ isHandlingUnauthorized' = TRUE
    /\ elapsed' = [elapsed EXCEPT ![r] = 0]
    /\ signOutLog' = Append(signOutLog, r)
    /\ pc' = [pc EXCEPT ![r] = "signOut"]
    /\ UNCHANGED <<timers, hrefLog, outcome>>

\* The response interceptor's error handler, run for request r with error e
\* up to its first suspension point (or to its end).
OnRejected(r, e) ==
    /\ error' = [error EXCEPT ![r] = e]
    /\ pathname' = [pathname EXCEPT
                       ![r] = IF IsUnauthorized(e)
                              THEN CurrentPathname(location) ELSE @]
    /\ IF Branch(e, location, isHandlingUnauthorized) = "recover"
       THEN BeginRecovery(r)
       ELSE /\ outcome' = [outcome EXCEPT
                              ![r] = Rejected(RejectionOf(e, FALSE, NoError))]
            /\ pc' = [pc EXCEPT ![r] = "settled"]
            /\ UNCHANGED <<isHandlingUnauthorized, elapsed, timers,
                           signOutLog, hrefLog>>
    /\ UNCHANGED location

\* getSession() rejects: the interceptor throws, axios skips the transport
\* and passes the rejection on to the response interceptor's error handler.
GetSessionReject(r) ==
    /\ pc[r] = "getSession"
    /\ UNCHANGED <<session, headers>>
    /\ OnRejected(r, LookupError(r))

\* Request r leaves the transport.
Received(r) ==
    /\ session' = [session EXCEPT ![r] = NotLooked]
    /\ headers' = [headers EXCEPT ![r] = NoHeaders]

\* The transport answers request r with status st.
TransportRespond(r, st) ==
    /\ pc[r] = "sent"
    /\ Received(r)
    /\ IF validateStatus(st)
       THEN /\ outcome' = [outcome EXCEPT ![r] = Fulfilled(r, st)]
            /\ pc' = [pc EXCEPT ![r] = "settled"]
            /\ UNCHANGED <<isHandlingUnauthorized, location, error, pathname,
                           elapsed, timers, signOutLog, hrefLog>>
       ELSE OnRejected(r, HttpError(r, st))

\* The transport fails without a response.
TransportFail(r) ==
    /\ pc[r] = "sent"
    /\ Received(r)
    /\ OnRejected(r, NetworkError(r))

\* (variant: the reset is scheduled without a delay)
ScheduleReset_Immediate(r) == [timers EXCEPT ![r] = 0]

\* setTimeout(() => { isHandlingUnauthorized = false; }, 1000)
ScheduleReset(r) == [timers EXCEPT ![r] = RESET_DELAY]

\* (variant: a failed signOut ends the handler, its error is thrown)
SignOutSettle_AbortOnFailure(r, failed) ==
    /\ pc[r] = "signOut"
    /\ IF failed
       THEN /\ outcome' = [outcome EXCEPT ![r] = Rejected(SignOutError(r))]
            /\ UNCHANGED <<hrefLog, timers>>
       ELSE /\ hrefLog' = Append(hrefLog,
                                 [req |-> r,
                                  href |-> LoginHref(pathname[r],
                                                     location.search),
                                  signOutFailed |-> failed])
            /\ timers' = ScheduleReset(r)
            /\ outcome' = [outcome EXCEPT ![r] = Rejected(error[r])]
    /\ pc' = [pc EXCEPT ![r] = "settled"]
    /\ UNCHANGED <<isHandlingUnauthorized, location, session, headers,
                   error, pathname, elapsed, signOutLog>>

\* (variant: the handler clears the flag itself once it has redirected)
SignOutSettle_ResetInline(r, failed) ==
    /\ pc[r] = "signOut"
    /\ hrefLog' = Append(hrefLog,
                         [req |-> r,
                          href |-> LoginHref(pathname[r], location.search),
                          signOutFailed |-> failed])
    /\ isHandlingUnauthorized' = FALSE
    /\ elapsed' = [elapsed EXCEPT ![r] = NoTime]
    /\ outcome' = [outcome EXCEPT ![r] = Rejected(error[r])]
    /\ pc' = [pc EXCEPT ![r] = "settled"]
    /\ UNCHANGED <<location, session, headers, error, pathname, timers,
                   signOutLog>>

\* supabase.auth.signOut() settles (failed: it threw, the catch logs it):
\* the handler redirects, schedules the reset and rejects with the error.
SignOutSettle(r, failed) ==
    /\ pc[r] = "signOut"
    /\ hrefLog' = Append(hrefLog,
                         [req |-> r,
                          href |-> LoginHref(pathname[r], location.search),
                          signOutFailed |-> failed])
    /\ timers' = ScheduleReset(r)
    /\ outcome' = [outcome EXCEPT
                      ![r] = Rejected(RejectionOf(error[r], failed,
                                                  SignOutError(r)))]
    /\ pc' = [pc EXCEPT ![r] = "settled"]
    /\ UNCHANGED <<isHandlingUnauthorized, location, session, headers,
                   error, pathname, elapsed, signOutLog>>

\* The setTimeout callback of handler r runs, once its delay has passed.
TimerFire(r) ==
    /\ timers[r] = 0
    /\ isHandlingUnauthorized' = FALSE
    /\ timers' = [timers EXCEPT ![r] = NoTimer]
    /\ elapsed' = [elapsed EXCEPT ![r] = NoTime]
    /\ UNCHANGED <<location, pc, session, headers, error, pathname, outcome,
                   signOutLog, hrefLog>>

\* TickMs milliseconds pass; a timer that is due runs before more time
\* passes.
Tick ==
    /\ \A r \in Reqs : timers[r] # 0
    /\ timers' = [r \in Reqs |->
                     IF timers[r] = NoTimer THEN NoTimer
                     ELSE Max(timers[r] - TickMs, 0)]
    /\ elapsed' = [r \in Reqs |->
                      IF elapsed[r] = NoTime THEN NoTime
                      ELSE Min(elapsed[r] + TickMs, ElapsedCap)]
    /\ UNCHANGED <<isHandlingUnauthorized, location, pc, session, headers,
                   error, pathname, outcome, signOutLog, hrefLog>>

\* The user (or a completed redirect) moves the page to another location.
Navigate(l) ==
    /\ l # location
    /\ location' = l
    /\ UNCHANGED <<isHandlingUnauthorized, pc, session, headers, error,
                   pathname, elapsed, timers, outcome, signOutLog, hrefLog>>

Next ==
    \/ \E r \in Reqs : Issue(r)
    \/ \E r \in Reqs, s \in Sessions : GetSessionResolve(r, s)
    \/ \E r \in Reqs : GetSessionReject(r)
    \/ \E r \in Reqs, st \in Statuses : TransportRespond(r, st)
    \/ \E r \in Reqs : TransportFail(r)
    \/ \E r \in Reqs, failed \in BOOLEAN : SignOutSettle(r, failed)
    \/ \E r \in Reqs : TimerFire(r)
    \/ Tick
    \/ \E l \in Locations : Navigate(l)

Spec == Init /\ [][Next]_vars

\* The event loop runs a timer callback that is due, and time passes.  The
\* session provider and the transport are external: nothing makes
\* getSession(), a request or signOut() settle.
FairSpec ==
    /\ Spec
    /\ WF_vars(Tick)
    /\ \A r \in Reqs : WF_vars(TimerFire(r))

\* ---------------------------------------------------------------- claims
\* The exempt prefixes as the specification lists them.
ExemptPathSet == {"/login", "/signup", "/forgot-password", "/reset-password"}
HasExemptPrefix(p) ==
    \E x \in ExemptPathSet : Len(x) <= Len(p) /\ SubSeq(p, 1, Len(x)) = x

Own401(r) == HttpError(r, UNAUTHORIZED)
Redirected(r) == \E i \in 1..Len(hrefLog) : hrefLog[i].req = r
SignedOutBy(r) == \E i \in 1..Len(signOutLog) : signOutLog[i] = r

\* Request r failed with 401 and its handler ran on a non-exempt path.
UnauthorizedNonExempt(r) ==
    IsUnauthorized(error[r]) /\ ~HasExemptPrefix(pathname[r])
\* Such a request whose handler found the flag set.
Suppressed(r) ==
    UnauthorizedNonExempt(r) /\ pc[r] = "settled" /\ ~SignedOutBy(r)
\* No reset timer has run yet.
NoResetYet == \A r \in Reqs : Redirected(r) => timers[r] # NoTimer

\* C1 as stated: when every request has failed with 401 on a non-exempt
\* path and every caller has its answer, sign-out was called exactly once
\* and the redirect was made exactly once, whatever the interleaving with the
\* timer, and each caller was rejected with its own 401 error.
C1_ExactlyOnceAnyInterleaving ==
    (\A r \in Reqs : UnauthorizedNonExempt(r) /\ pc[r] = "settled")
    => /\ Len(signOutLog) = 1
       /\ Len(hrefLog) = 1
       /\ \A r \in Reqs : outcome[r] = Rejected(Own401(r))

\* C1 amended: as long as no reset timer has run, any number N >= 1 of
\* requests that failed with 401 on a non-exempt path have caused exactly one
\* sign-out call and at most one redirect, exactly one once all of them are
\* answered, and each one answered was rejected with its own 401 error.
C1_ExactlyOnceBeforeReset ==
    ((\E r \in Reqs : UnauthorizedNonExempt(r)) /\ NoResetYet)
    => /\ Len(signOutLog) = 1
       /\ Len(hrefLog) <= 1
       /\ \A r \in Reqs :
             (UnauthorizedNonExempt(r) /\ pc[r] = "settled")
             => outcome[r] = Rejected(Own401(r))
       /\ (\A r \in Reqs : UnauthorizedNonExempt(r) => pc[r] = "settled")
          => Len(hrefLog) = 1

\* C1 witness: every request failed with 401 on a non-exempt path, all are
\* answered, no reset has run, and there was one sign-out and one redirect.
C1_Witness ==
    /\ \A r \in Reqs : UnauthorizedNonExempt(r) /\ pc[r] = "settled"
    /\ NoResetYet
    /\ Len(signOutLog) = 1
    /\ Len(hrefLog) = 1

\* C2: at most one recovery is executing (its sign-out pending, its redirect
\* not yet made) or scheduled (its reset timer pending) in any state, the
\* flag is set while one executes, and every sign-out call but the pending
\* one has been followed by its redirect.
C2_AtMostOneRecovery ==
    /\ Cardinality({r \in Reqs : pc[r] = "signOut" \/ timers[r] # NoTimer}) <= 1
    /\ \A r \in Reqs : pc[r] = "signOut" => isHandlingUnauthorized
    /\ Len(signOutLog) - Len(hrefLog)
          = Cardinality({r \in Reqs : pc[r] = "signOut"})

\* C2 witness: a recovery's sign-out is pending and another request's 401 on
\* a non-exempt path has been handled meanwhile without starting a recovery.
C2_Witness ==
    \E r, q \in Reqs : r # q /\ pc[r] = "signOut" /\ Suppressed(q)

\* The failures request r can end with: a rejected status, a transport
\* failure, a failed credential lookup.
OwnFailures(r) ==
    {HttpError(r, st) : st \in {x \in Statuses : x < 200 \/ x >= 300}}
    \cup {NetworkError(r), LookupError(r)}

\* C3: the error a request failed with is a failure of that request, a
\* caller is rejected only with the error its request failed with, and every
\* answered request that failed was rejected with it.
C3_OriginalFailureDelivered ==
    \A r \in Reqs :
        /\ error[r] # NoError => error[r] \in OwnFailures(r)
        /\ outcome[r].state = "rejected"
           => error[r] # NoError /\ outcome[r].value = error[r]
        /\ (pc[r] = "settled" /\ error[r] # NoError)
           => outcome[r].state = "rejected"

\* C3 witness: one caller was rejected with its 401 after a recovery whose
\* sign-out failed, another with its 401 suppressed by the flag.
C3_Witness ==
    \E r, q \in Reqs :
        /\ r # q
        /\ \E i \in 1..Len(hrefLog) :
              hrefLog[i].req = r /\ hrefLog[i].signOutFailed
        /\ outcome[r] = Rejected(Own401(r))
        /\ Suppressed(q)
        /\ outcome[q] = Rejected(Own401(q))

\* C4: a step in which a request fails with 401 while the current path has
\* an exempt prefix calls no sign-out, makes no redirect, leaves the flag and
\* the timers as they are and rejects the caller with the 401 error.
C4_ExemptPathNoRecovery ==
    [][\A r \in Reqs :
          (/\ error[r] = NoError
           /\ IsUnauthorized(error'[r])
           /\ HasExemptPrefix(location.pathname))
          => /\ UNCHANGED <<signOutLog, hrefLog, isHandlingUnauthorized,
                            timers>>
             /\ outcome'[r] = Rejected(Own401(r))
             /\ pc'[r] = "settled"]_vars

\* C4 witness: a request failed with 401 at /reset-password/abc and was
\* rejected with it, and sign-out was never called.
C4_Witness ==
    \E r \in Reqs :
        /\ pathname[r] = "/reset-password/abc"
        /\ outcome[r] = Rejected(Own401(r))
        /\ Len(signOutLog) = 0
        /\ Len(hrefLog) = 0
        /\ ~isHandlingUnauthorized

Classifies401NonExempt(r) ==
    /\ error[r] = NoError
    /\ IsUnauthorized(error'[r])
    /\ ~HasExemptPrefix(location.pathname)

\* C6: the flag is reset only when at least the reset delay has passed since
\* the recovery began; a 401 failure on a non-exempt path handled while the
\* flag is set calls no sign-out, makes no redirect and is rejected; one
\* handled while the flag is not set starts a recovery: it sets the flag and
\* calls sign-out; and every redirect follows a sign-out call of its own.
C6_CooldownWindow ==
    /\ [][(isHandlingUnauthorized /\ ~isHandlingUnauthorized')
            => \E r \in Reqs : elapsed[r] >= RESET_DELAY]_vars
    /\ [][\A r \in Reqs :
            Classifies401NonExempt(r)
            => IF isHandlingUnauthorized
               THEN /\ UNCHANGED <<signOutLog, hrefLog,
                                   isHandlingUnauthorized, timers>>
                    /\ outcome'[r] = Rejected(Own401(r))
               ELSE /\ signOutLog' = Append(signOutLog, r)
                    /\ isHandlingUnauthorized'
                    /\ pc'[r] = "signOut"]_vars
    /\ [](\A i \in 1..Len(hrefLog) :
            i <= Len(signOutLog) /\ hrefLog[i].req = signOutLog[i])

\* C6 witness: after a first recovery and the reset of the flag, a second
\* 401 failure has started a recovery of its own, with sign-out and redirect.
C6_Witness ==
    /\ Len(signOutLog) = 2
    /\ Len(hrefLog) = 2
    /\ signOutLog[1] # signOutLog[2]

C8_SignOutFailureDoesNotAbort ==
    /\ [][\A r \in Reqs :
            (pc[r] = "signOut" /\ pc'[r] # "signOut")
            => /\ Len(hrefLog') = Len(hrefLog) + 1
               /\ hrefLog'[Len(hrefLog')].req = r
               /\ SubSeq(hrefLog', 1, Len(hrefLog)) = hrefLog
               /\ timers'[r] = RESET_DELAY
               /\ outcome'[r] = Rejected(Own401(r))]_vars
    /\ \A r \in Reqs :
          (timers[r] # NoTimer) ~> (timers[r] = NoTimer)
    /\ [][\A r \in Reqs :
            (timers[r] # NoTimer /\ timers'[r] = NoTimer)
            => ~isHandlingUnauthorized']_vars

\* C8 witness: a sign-out call failed, the redirect was made all the same,
\* the reset has run and the caller was rejected with its 401 error.
C8_Witness ==
    \E i \in 1..Len(hrefLog) :
        /\ hrefLog[i].signOutFailed
        /\ timers[hrefLog[i].req] = NoTimer
        /\ ~isHandlingUnauthorized
        /\ outcome[hrefLog[i].req] = Rejected(Own401(hrefLog[i].req))

\* C9: a request at the transport carries Authorization 'Bearer c' for the
\* credential c its own lookup returned when c is not empty, and no
\* Authorization header when the lookup returned no session or an empty
\* credential; and a request whose lookup returns goes to the transport.
C9_BearerOfOwnCredential ==
    /\ [](\A r \in Reqs :
            pc[r] = "sent"
            => IF session[r] \in {Session("tokA"), Session("tokB")}
               THEN /\ headers[r].hasAuthorization
                    /\ headers[r].Authorization
                         = "Bearer " \o session[r].access_token
               ELSE /\ session[r] \in {NoSession, Session("")}
                    /\ ~headers[r].hasAuthorization)
    /\ [][\A r \in Reqs :
            (pc[r] = "getSession" /\ error'[r] = NoError
             /\ pc'[r] # "getSession")
            => pc'[r] = "sent" /\ session'[r] \in Sessions]_vars

\* C9 witness: two requests are at the transport at once, one with the
\* credential tokA and one, after a rotation, with tokB.
C9_Witness ==
    \E r, q \in Reqs :
        /\ pc[r] = "sent" /\ pc[q] = "sent"
        /\ headers[r].Authorization = "Bearer tokA"
        /\ headers[q].Authorization = "Bearer tokB"

\* C10: a request whose credential lookup failed never is at the transport
\* and its caller is rejected with the lookup failure; the step in which the
\* lookup fails calls no sign-out, makes no redirect and leaves the flag and
\* the timers as they are.
C10_LookupFailureAborts ==
    /\ [](\A r \in Reqs :
            error[r].cause = "getSession"
            => /\ pc[r] = "settled"
               /\ outcome[r] = Rejected(LookupError(r))
               /\ session[r] = NotLooked
               /\ ~SignedOutBy(r) /\ ~Redirected(r))
    /\ [][\A r \in Reqs :
            (pc[r] = "getSession" /\ pc'[r] # "getSession"
             /\ session'[r] = NotLooked)
            => /\ error'[r] = LookupError(r)
               /\ pc'[r] = "settled"
               /\ UNCHANGED <<signOutLog, hrefLog, isHandlingUnauthorized,
                              timers, headers>>]_vars

\* C10 witness: a credential lookup failed while no recovery was under way,
\* the caller was rejected with that failure and nothing else happened.
C10_Witness ==
    \E r \in Reqs :
        /\ outcome[r] = Rejected(LookupError(r))
        /\ pc[r] = "settled"
        /\ ~isHandlingUnauthorized
        /\ Len(signOutLog) = 0

\* The step is the handling of a failure of request r that is not a 401
\* response: another status, or no response at all.
ClassifiesNon401(r) ==
    /\ error[r] = NoError
    /\ error'[r] # NoError
    /\ ~(error'[r].response.present /\ error'[r].response.status = 401)

\* C11: a step that handles a failure whose status is not 401, or that has
\* no response, calls no sign-out, makes no redirect, leaves the flag and the
\* timers as they are, whatever the flag is, and rejects the caller with
\* that failure, which is a failure of its own request.
C11_Non401NoRecovery ==
    [][\A r \in Reqs :
          ClassifiesNon401(r)
          => /\ UNCHANGED <<signOutLog, hrefLog, isHandlingUnauthorized,
                            timers, elapsed>>
             /\ error'[r] \in OwnFailures(r)
             /\ outcome'[r] = Rejected(error'[r])
             /\ pc'[r] = "settled"]_vars

\* C11 witness: while a recovery's sign-out is pending and the flag is set,
\* a transport failure without a response was rejected to its caller.
C11_Witness ==
    \E r, q \in Reqs :
        /\ pc[r] = "signOut"
        /\ isHandlingUnauthorized
        /\ outcome[q] = Rejected(NetworkError(q))
        /\ Len(signOutLog) = 1

\* C12: the health probe never throws: once its request has settled it
\* returns true when the request was answered with status 200 and false in
\* every other case, a failed lookup, a transport failure and any error
\* status included; and its 401 on a non-exempt path with the flag clear
\* starts a recovery like that of any other request.
C12_HealthProbeNeverThrows ==
    /\ [](/\ healthCheck(outcome[HealthProbe]).kind # "throw"
          /\ outcome[HealthProbe].state = "pending"
             <=> healthCheck(outcome[HealthProbe]) = NotReturned
          /\ outcome[HealthProbe] = Fulfilled(HealthProbe, 200)
             <=> healthCheck(outcome[HealthProbe]) = Returns(TRUE)
          /\ (outcome[HealthProbe].state # "pending"
              /\ outcome[HealthProbe] # Fulfilled(HealthProbe, 200))
             <=> healthCheck(outcome[HealthProbe]) = Returns(FALSE))
    /\ [][(Classifies401NonExempt(HealthProbe) /\ ~isHandlingUnauthorized)
            => /\ signOutLog' = Append(signOutLog, HealthProbe)
               /\ isHandlingUnauthorized']_vars

\* C12 witness: the probe's 401 started a recovery, the sign-out was called
\* and the redirect made for it, and the probe returned false.
C12_Witness ==
    /\ SignedOutBy(HealthProbe)
    /\ Redirected(HealthProbe)
    /\ outcome[HealthProbe] = Rejected(Own401(HealthProbe))
    /\ healthCheck(outcome[HealthProbe]) = Returns(FALSE)

\* C13: a 401 handler that finds the flag set calls no sign-out, makes no
\* redirect, schedules no timer, leaves the flag as it is and rejects its
\* caller; the flag becomes true only in the step in which a handler starts
\* a recovery and calls sign-out, and becomes false only when the timer of
\* the latest recovery, scheduled after its redirect, runs.
C13_SuppressedHandlerWritesNothing ==
    /\ [][\A r \in Reqs :
            (Classifies401NonExempt(r) /\ isHandlingUnauthorized)
            => /\ UNCHANGED <<signOutLog, hrefLog, timers, elapsed,
                              isHandlingUnauthorized>>
               /\ outcome'[r] = Rejected(Own401(r))
               /\ pc'[r] = "settled"]_vars
    /\ [][(~isHandlingUnauthorized /\ isHandlingUnauthorized')
            => \E r \in Reqs :
                 /\ Classifies401NonExempt(r)
                 /\ pc'[r] = "signOut"
                 /\ signOutLog' = Append(signOutLog, r)]_vars
    /\ [][(isHandlingUnauthorized /\ ~isHandlingUnauthorized')
            => \E r \in Reqs :
                 /\ timers[r] = 0 /\ timers'[r] = NoTimer
                 /\ Redirected(r)
                 /\ signOutLog[Len(signOutLog)] = r
                 /\ UNCHANGED <<signOutLog, hrefLog, pc, outcome>>]_vars

\* C13 witness: a recovery has run to its end and the flag is clear again,
\* and a 401 handled while the flag was set has only rejected its caller.
C13_Witness ==
    \E q \in Reqs :
        /\ Suppressed(q)
        /\ outcome[q] = Rejected(Own401(q))
        /\ ~isHandlingUnauthorized
        /\ Len(signOutLog) = 1
        /\ Len(hrefLog) = 1
        /\ timers[q] = NoTimer

\* C14: within a recovery the flag is set in the step that calls sign-out;
\* while the sign-out call is pending the flag stays set, the redirect has
\* not been made and no reset is scheduled, however long it takes; the
\* redirect is made in the step in which the sign-out call settles, and that
\* step schedules the reset with the full delay and goes on to reject the
\* caller without waiting for it.
C14_RecoveryStepsInOrder ==
    /\ [](\A r \in Reqs :
            pc[r] = "signOut"
            => /\ isHandlingUnauthorized
               /\ SignedOutBy(r)
               /\ ~Redirected(r)
               /\ timers[r] = NoTimer
               /\ elapsed[r] # NoTime)
    /\ [][signOutLog' # signOutLog
            => /\ ~isHandlingUnauthorized /\ isHandlingUnauthorized'
               /\ hrefLog' = hrefLog]_vars
    /\ [][hrefLog' # hrefLog
            => \E r \in Reqs :
                 /\ pc[r] = "signOut" /\ pc'[r] = "settled"
                 /\ Len(hrefLog') = Len(hrefLog) + 1
                 /\ hrefLog'[Len(hrefLog')].req = r
                 /\ timers[r] = NoTimer /\ timers'[r] = RESET_DELAY
                 /\ isHandlingUnauthorized /\ isHandlingUnauthorized'
                 /\ outcome'[r].state = "rejected"]_vars

\* C14 witness: a sign-out call took longer than the reset delay; it has
\* settled, the redirect is made and the reset is scheduled with its full
\* delay still to run, the flag being set all along.
C14_Witness ==
    \E r \in Reqs :
        /\ Redirected(r)
        /\ timers[r] = RESET_DELAY
        /\ elapsed[r] > RESET_DELAY
        /\ isHandlingUnauthorized

\* The redirect target the specification gives for a failure handled at
\* location l: /login?returnUrl= and the encoded path and query of l.
ReturnUrlOf(l) ==
    CASE l = [pathname |-> "/dashboard", search |-> ""]
           -> "/login?returnUrl=%2Fdashboard"
      [] l = [pathname |-> "/settings", search |-> "?tab=2"]
           -> "/login?returnUrl=%2Fsettings%3Ftab%3D2"
      [] l = [pathname |-> "/reset-password/abc", search |-> ""]
           -> "/login?returnUrl=%2Freset-password%2Fabc"

\* C15: every redirect goes to the return URL of one location, the one that
\* was current when the handler that makes it handled the 401 failure (the
\* location whose path the handler read then).
C15_ReturnUrlOfClassifiedLocation ==
    \A i \in 1..Len(hrefLog) :
        \E l \in Locations :
            /\ l.pathname = pathname[hrefLog[i].req]
            /\ hrefLog[i].href = ReturnUrlOf(l)

\* C16: a redirect is made only in a step taken while the current path has
\* no exempt prefix.
C16_NoRedirectOnExemptPath ==
    [][hrefLog' # hrefLog => ~HasExemptPrefix(location.pathname)]_vars

\* C17: when the flag is false no sign-out call is pending, no redirect is
\* outstanding and no reset timer is pending; at most one reset timer is
\* pending at any time; and a timer that runs belongs to the latest recovery,
\* whose redirect is made, so it never clears the flag of a later one.
C17_FlagFalseMeansIdle ==
    /\ [](~isHandlingUnauthorized
            => /\ \A r \in Reqs : pc[r] # "signOut" /\ timers[r] = NoTimer
               /\ Len(hrefLog) = Len(signOutLog))
    /\ [](Cardinality({r \in Reqs : timers[r] # NoTimer}) <= 1)
    /\ [][\A r \in Reqs :
            (timers[r] # NoTimer /\ timers'[r] = NoTimer)
            => /\ signOutLog[Len(signOutLog)] = r
               /\ hrefLog[Len(hrefLog)].req = r
               /\ Len(hrefLog) = Len(signOutLog)
               /\ \A q \in Reqs : pc[q] # "signOut"]_vars

\* C17 witness: a second recovery is under way, its sign-out pending and the
\* flag set, after the timer of the first one has run; no timer is pending.
C17_Witness ==
    /\ Len(signOutLog) = 2
    /\ Len(hrefLog) = 1
    /\ isHandlingUnauthorized
    /\ pc[signOutLog[2]] = "signOut"
    /\ \A r \in Reqs : timers[r] = NoTimer

====
